---- MODULE Spec2Model ----
(***************************************************************************)
(* Model of the Endpoint class of icinga2's remoting library               *)
(* (lib/remoting/endpoint.cpp), of the attribute tables of Endpoint and    *)
(* Service, and of ConfigObjectUtility (lib/remote).                       *)
(*                                                                         *)
(* Spec        : every Endpoint method runs as one atomic call.            *)
(* SpecThreads : two threads run one Endpoint method each, interleaved at  *)
(*               the granularity of the attribute reads and writes.        *)
(* SpecFair    : posted dispatches and a task queue that keeps running.    *)
(* SpecRouter  : two endpoints and the endpoint manager's routing.         *)
(* SpecRebind  : one remote endpoint and two connections.                  *)
(* SpecConfig  : ConfigObjectUtility::CreateObject and DeleteObject.       *)
(***************************************************************************)
EXTENDS Integers, Sequences, FiniteSets, TLC

VARIABLES
    local,            \* endpoint -> value of the "local" attribute
    subscriptions,    \* endpoint -> value of the "subscriptions" attribute
    client,           \* endpoint -> value of the "client" attribute
    m_TopicHandlers,  \* endpoint -> (topic -> sequence of connected callbacks)
    wired,            \* <<connection, endpoint>> pairs: signals connected by SetClient
    stream,           \* connection -> "open" | "closed"
    eq,               \* the process-wide task queue (Application::GetEQ())
    call,             \* the call made by the last step
    out,              \* what the last call emitted, sent, posted, routed or raised
    th,               \* thread -> the call a thread is in the middle of
    subs0,            \* SpecThreads: the subscriptions attribute before the threads ran
    types,            \* type name -> attribute table given to REGISTER_TYPE
    pending,          \* endpoint manager: ids of the outstanding calls
    objects,          \* config object name -> its registration, activity, package
    files,            \* names of the objects whose config file exists under _api
    ccall             \* the last ConfigObjectUtility call and what it returned

vars == <<local, subscriptions, client, m_TopicHandlers, wired, stream, eq,
          call, out, th, subs0, types, pending,
                   objects, files, ccall>>

-----------------------------------------------------------------------------
(* Bounds and small input sets *)

MaxQueue == 2
MaxHandlers == 2

EndpointNames == {"e1", "e2"}
TopicOrder == <<"A", "B", "C">>
Topics == {TopicOrder[i] : i \in 1..Len(TopicOrder)}
\* Handlers are registered for topic A; B stays a method no handler knows.
HandlerTopics == {"A"}
Callbacks == {"h1"}
Threads == {"t1", "t2"}

None == "none"

\* A message part: method, id and result are optional fields.
Message(method, id, result) == [method |-> method, id |-> id, result |-> result]
NoMsg == Message(None, None, None)
Requests == {Message("A", None, None), Message("B", "id1", None),
             Message(None, None, None)}
Responses == {Message(None, "id1", "ok")}

-----------------------------------------------------------------------------
(* Values and dictionaries *)

EmptyDict == [k \in {} |-> None]

\* A Value holding a Dictionary, and the empty Value.
DictValue(d) == [obj |-> TRUE, d |-> d]
Empty == [obj |-> FALSE, d |-> EmptyDict]

Contains(d, key) == key \in DOMAIN d
DictSet(d, key, value) == [k \in DOMAIN d \cup {key} |-> IF k = key THEN value ELSE d[k]]
DictRemove(d, key) == [k \in DOMAIN d \ {key} |-> d[k]]
ShallowClone(d) == [k \in DOMAIN d |-> d[k]]

\* The values of a dictionary in iteration (key) order.
RECURSIVE DictValuesFrom(_, _)
DictValuesFrom(d, i) ==
    IF i > Len(TopicOrder) THEN <<>>
    ELSE (IF Contains(d, TopicOrder[i]) THEN <<d[TopicOrder[i]]>> ELSE <<>>)
         \o DictValuesFrom(d, i + 1)
DictValues(d) == DictValuesFrom(d, 1)

\* The topics an attribute value subscribes to; an absent set counts as empty.
TopicsOf(value) == IF value.obj THEN DOMAIN value.d ELSE {}

\* The dictionary RegisterSubscription builds for a set of topics.
TopicDict(S) == [k \in S |-> k]
SubscriptionValues == {Empty} \cup {DictValue(TopicDict(S)) : S \in SUBSET Topics}

-----------------------------------------------------------------------------
(* Effects recorded in out *)

Effect(kind, a, b, m) == <<kind, a, b, m>>
Registered(e, topic) == Effect("Registered", e, topic, NoMsg)
Unregistered(e, topic) == Effect("Unregistered", e, topic, NoMsg)
Connected(e) == Effect("Connected", e, None, NoMsg)
Disconnected(e) == Effect("Disconnected", e, None, NoMsg)
Sent(c, m) == Effect("Sent", c, None, m)
Posted(receiver, sender, m) == Effect("Posted", receiver, sender, m)
Invoked(cb, receiver, sender, m) == <<"Invoked", receiver, sender, m, cb>>
Routed(op, sender, m) == Effect(op, sender, None, m)
Raised(what) == Effect("Raised", what, None, NoMsg)

Call(op, e, a, m) == <<op, e, a, m>>
NoCall == Call(None, None, None, NoMsg)

Task(receiver, sender, m) == [receiver |-> receiver, sender |-> sender, request |-> m]

Idle == [pc |-> "idle", op |-> None, e |-> None, arg |-> None, msg |-> NoMsg,
         tmp |-> Empty, cl |-> None]

-----------------------------------------------------------------------------
(* Attribute classification *)

Attribute_Transient == "Transient"
Attribute_Replicated == "Replicated"

AttributeDescription(name, type) == [name |-> name, type |-> type]

\* The Endpoint table with the connection handle marked for replication.
endpointAttributes_ClientReplicated ==
    << AttributeDescription("node", Attribute_Replicated),
       AttributeDescription("service", Attribute_Replicated),
       AttributeDescription("subscriptions", Attribute_Replicated),
       AttributeDescription("client", Attribute_Replicated) >>

endpointAttributes ==
    << AttributeDescription("node", Attribute_Replicated),
       AttributeDescription("service", Attribute_Replicated),
       AttributeDescription("subscriptions", Attribute_Replicated),
       AttributeDescription("client", Attribute_Transient) >>

serviceAttributes ==
    << AttributeDescription("scheduling_offset", Attribute_Transient),
       AttributeDescription("first_check", Attribute_Transient),
       AttributeDescription("next_check", Attribute_Replicated),
       AttributeDescription("checker", Attribute_Replicated),
       AttributeDescription("check_attempt", Attribute_Replicated),
       AttributeDescription("state", Attribute_Replicated),
       AttributeDescription("state_type", Attribute_Replicated),
       AttributeDescription("last_result", Attribute_Replicated),
       AttributeDescription("last_state_change", Attribute_Replicated),
       AttributeDescription("last_hard_state_change", Attribute_Replicated),
       AttributeDescription("enable_active_checks", Attribute_Replicated),
       AttributeDescription("enable_passive_checks", Attribute_Replicated),
       AttributeDescription("force_next_check", Attribute_Replicated),
       AttributeDescription("acknowledgement", Attribute_Replicated),
       AttributeDescription("acknowledgement_expiry", Attribute_Replicated),
       AttributeDescription("downtimes", Attribute_Replicated),
       AttributeDescription("comments", Attribute_Replicated),
       AttributeDescription("last_notification", Attribute_Replicated),
       AttributeDescription("next_notification", Attribute_Replicated) >>

\* REGISTER_TYPE(Endpoint, endpointAttributes); REGISTER_TYPE(Service, serviceAttributes).
RegisteredTypes == [Endpoint |-> endpointAttributes, Service |-> serviceAttributes]

\* The class of an attribute of a type: the first table entry of that name,
\* Transient if the type or the attribute is not registered.
Lookup(typeName, attributeName) ==
    IF typeName \notin DOMAIN types THEN Attribute_Transient
    ELSE LET table == types[typeName]
             hits == {i \in 1..Len(table) : table[i].name = attributeName}
         IN  IF hits = {} THEN Attribute_Transient
             ELSE table[CHOOSE i \in hits : \A j \in hits : i <= j].type

-----------------------------------------------------------------------------
(* Config objects: names, dependencies and the record of a call *)

ObjectNames == {"h", "s", "n"}
ObjectOrder == <<"h", "s", "n">>

\* An object that is not registered, and one that is registered and active.
NoObject == [registered |-> FALSE, active |-> FALSE, package |-> None]
ActiveObject(package) == [registered |-> TRUE, active |-> TRUE, package |-> package]
NoObjects == [o \in ObjectNames |-> NoObject]

NoConfigCall ==
    [op |-> None, type |-> None, name |-> None, cascade |-> FALSE,
     errors |-> FALSE, existed |-> FALSE, ret |-> None, errs |-> <<>>,
     authority |-> FALSE, deleted |-> <<>>, failing |-> {}]

-----------------------------------------------------------------------------
(* Queries *)

\* The endpoint objects and the connections that exist.
Endpoints == DOMAIN local
Connections == DOMAIN stream

\* The "local" attribute is None (empty), "false" or "true".
LocalValues == {None, "false", "true"}
IsLocalEndpoint(e) == local[e] # None /\ local[e] = "true"

GetClient(e) == client[e]

StreamIsConnected(c) == stream[c] = "open"

\* IsConnected without the local branch.
IsConnected_ClientOnly(e) ==
    GetClient(e) # None /\ StreamIsConnected(GetClient(e))

\* IsConnected that trusts a bound client without asking its stream.
IsConnected_NoStream(e) ==
    IF IsLocalEndpoint(e) THEN TRUE
    ELSE GetClient(e) # None

IsConnected(e) ==
    IF IsLocalEndpoint(e) THEN TRUE
    ELSE GetClient(e) # None /\ StreamIsConnected(GetClient(e))

GetSubscriptions(e) == subscriptions[e]

\* HasSubscription that asks the handler table instead of the attribute.
HasSubscription_ByHandler(e, topic) == Contains(m_TopicHandlers[e], topic)

HasSubscription(e, topic) ==
    GetSubscriptions(e).obj /\ Contains(GetSubscriptions(e).d, topic)

-----------------------------------------------------------------------------
(* The change hook *)

RECURSIVE Changed(_, _, _, _)
\* The events for the values of seq that are no key of other, in order.
Changed(e, seq, other, kind) ==
    IF seq = <<>> THEN <<>>
    ELSE (IF ~other.obj \/ ~Contains(other.d, Head(seq))
          THEN <<Effect(kind, e, Head(seq), NoMsg)>> ELSE <<>>)
         \o Changed(e, Tail(seq), other, kind)

\* The hook without the test against the old subscriptions.
OnAttributeChanged_AllNew(e, name, oldValue, newValue) ==
    IF name = "subscriptions"
    THEN (IF oldValue.obj
          THEN Changed(e, DictValues(oldValue.d), newValue, "Unregistered")
          ELSE <<>>)
         \o
         (IF newValue.obj
          THEN Changed(e, DictValues(newValue.d), Empty, "Registered")
          ELSE <<>>)
    ELSE <<>>

\* newValue is what GetSubscriptions() returns inside the hook.
OnAttributeChanged(e, name, oldValue, newValue) ==
    IF name = "subscriptions"
    THEN (IF oldValue.obj
          THEN Changed(e, DictValues(oldValue.d), newValue, "Unregistered")
          ELSE <<>>)
         \o
         (IF newValue.obj
          THEN Changed(e, DictValues(newValue.d), oldValue, "Registered")
          ELSE <<>>)
    ELSE <<>>

-----------------------------------------------------------------------------
(* Subscription operations: each yields the value stored by Set, if any *)

NoSet == [set |-> FALSE, value |-> Empty]
DoSet(value) == [set |-> TRUE, value |-> value]

\* RegisterSubscription that starts from a fresh dictionary instead of a clone.
RegisterSubscriptionOn_Fresh(subs, topic) ==
    LET d == IF ~subs.obj THEN EmptyDict ELSE subs.d
    IN  IF ~Contains(d, topic)
        THEN DoSet(DictValue(DictSet(EmptyDict, topic, topic)))
        ELSE NoSet

\* RegisterSubscription after GetSubscriptions() returned subs.
RegisterSubscriptionOn(subs, topic) ==
    LET d == IF ~subs.obj THEN EmptyDict ELSE subs.d
    IN  IF ~Contains(d, topic)
        THEN DoSet(DictValue(DictSet(ShallowClone(d), topic, topic)))
        ELSE NoSet

\* UnregisterSubscription after GetSubscriptions() returned subs.
UnregisterSubscriptionOn(subs, topic) ==
    IF subs.obj /\ Contains(subs.d, topic)
    THEN DoSet(DictValue(DictRemove(ShallowClone(subs.d), topic)))
    ELSE NoSet

\* Set("subscriptions", ...): store the value, then run the hook with the old one.
Store(e, upd) ==
    /\ subscriptions' = [subscriptions EXCEPT ![e] = IF upd.set THEN upd.value ELSE @]
    /\ out' = IF upd.set
              THEN OnAttributeChanged(e, "subscriptions", subscriptions[e], upd.value)
              ELSE <<>>

RegisterSubscription(e, topic) ==
    /\ Store(e, RegisterSubscriptionOn(GetSubscriptions(e), topic))
    /\ call' = Call("RegisterSubscription", e, topic, NoMsg)
    /\ UNCHANGED <<local, client, m_TopicHandlers, wired, stream, eq, th, subs0, types, pending,
                   objects, files, ccall>>

UnregisterSubscription(e, topic) ==
    /\ Store(e, UnregisterSubscriptionOn(GetSubscriptions(e), topic))
    /\ call' = Call("UnregisterSubscription", e, topic, NoMsg)
    /\ UNCHANGED <<local, client, m_TopicHandlers, wired, stream, eq, th, subs0, types, pending,
                   objects, files, ccall>>

ClearSubscriptions(e) ==
    /\ Store(e, DoSet(Empty))
    /\ call' = Call("ClearSubscriptions", e, None, NoMsg)
    /\ UNCHANGED <<local, client, m_TopicHandlers, wired, stream, eq, th, subs0, types, pending,
                   objects, files, ccall>>

SetSubscriptions(e, value) ==
    /\ Store(e, DoSet(value))
    /\ call' = Call("SetSubscriptions", e, None, NoMsg)
    /\ UNCHANGED <<local, client, m_TopicHandlers, wired, stream, eq, th, subs0, types, pending,
                   objects, files, ccall>>

-----------------------------------------------------------------------------
(* Connection binding *)

\* SetClient is called with a connection that is not wired to an endpoint yet.
SetClient(e, c) ==
    /\ \A x \in Endpoints : <<c, x>> \notin wired
    /\ client' = [client EXCEPT ![e] = c]
    /\ wired' = wired \cup {<<c, e>>}
    /\ out' = OnAttributeChanged(e, "client", client[e], subscriptions[e])
              \o <<Connected(e)>>
    /\ call' = Call("SetClient", e, c, NoMsg)
    /\ UNCHANGED <<local, subscriptions, m_TopicHandlers, stream, eq, th, subs0, types, pending,
                   objects, files, ccall>>

\* ClientClosedHandler without the ClearSubscriptions() call.
ClosedSubscriptions_Kept(e) == subscriptions[e]

\* What one run of ClientClosedHandler leaves behind.
ClosedSubscriptions(e) == Empty
ClosedClient(e) == None
ClosedOut(e) ==
    OnAttributeChanged(e, "subscriptions", subscriptions[e], ClosedSubscriptions(e))
    \o <<Disconnected(e)>>

\* The closed event of connection c: its stream is down and the handler of
\* the endpoint wired to it runs.
\* ClientClosedHandler that also drops what the endpoint has queued.
ClientClosedHandler_Cancel(e, c) ==
    /\ stream[c] = "open"
    /\ <<c, e>> \in wired
    /\ stream' = [stream EXCEPT ![c] = "closed"]
    /\ subscriptions' = [subscriptions EXCEPT ![e] = ClosedSubscriptions(e)]
    /\ client' = [client EXCEPT ![e] = ClosedClient(e)]
    /\ out' = ClosedOut(e)
    /\ eq' = <<>>
    /\ call' = Call("ClientClosedHandler", e, c, NoMsg)
    /\ UNCHANGED <<local, m_TopicHandlers, wired, th, subs0, types, pending,
                   objects, files, ccall>>

ClientClosedHandler(e, c) ==
    /\ stream[c] = "open"
    /\ <<c, e>> \in wired
    /\ stream' = [stream EXCEPT ![c] = "closed"]
    /\ subscriptions' = [subscriptions EXCEPT ![e] = ClosedSubscriptions(e)]
    /\ client' = [client EXCEPT ![e] = ClosedClient(e)]
    /\ out' = ClosedOut(e)
    /\ call' = Call("ClientClosedHandler", e, c, NoMsg)
    /\ UNCHANGED <<local, m_TopicHandlers, wired, eq, th, subs0, types, pending,
                   objects, files, ccall>>

\* A connection that no endpoint is wired to goes down.
StreamClosed(c) ==
    /\ stream[c] = "open"
    /\ \A x \in Endpoints : <<c, x>> \notin wired
    /\ stream' = [stream EXCEPT ![c] = "closed"]
    /\ out' = <<>>
    /\ call' = Call("StreamClosed", None, c, NoMsg)
    /\ UNCHANGED <<local, subscriptions, client, m_TopicHandlers, wired, eq, th, subs0, types, pending,
                   objects, files, ccall>>

-----------------------------------------------------------------------------
(* Topic handlers *)

NoHandlers == [k \in {} |-> <<>>]

\* RegisterTopicHandler that replaces the topic's signal instead of connecting to it.
ConnectHandler_Replace(handlers, topic, callback) ==
    DictSet(handlers, topic, <<callback>>)

\* m_TopicHandlers of e after the callback was connected to the topic's signal.
ConnectHandler(handlers, topic, callback) ==
    IF ~Contains(handlers, topic)
    THEN DictSet(handlers, topic, <<callback>>)
    ELSE DictSet(handlers, topic, Append(handlers[topic], callback))

RegisterTopicHandler(e, topic, callback) ==
    /\ Contains(m_TopicHandlers[e], topic) => Len(m_TopicHandlers[e][topic]) < MaxHandlers
    /\ m_TopicHandlers' = [m_TopicHandlers EXCEPT
                              ![e] = ConnectHandler(@, topic, callback)]
    /\ Store(e, RegisterSubscriptionOn(GetSubscriptions(e), topic))
    /\ call' = Call("RegisterTopicHandler", e, topic, NoMsg)
    /\ UNCHANGED <<local, client, wired, stream, eq, th, subs0, types, pending,
                   objects, files, ccall>>

\* UnregisterTopicHandler as its commented-out body would run: no exception.
UnregisterTopicHandler_Silent(e, topic, callback) ==
    /\ m_TopicHandlers' = [m_TopicHandlers EXCEPT ![e] = DictRemove(@, topic)]
    /\ Store(e, UnregisterSubscriptionOn(GetSubscriptions(e), topic))
    /\ call' = Call("UnregisterTopicHandler", e, topic, NoMsg)
    /\ UNCHANGED <<local, client, wired, stream, eq, th, subs0, types, pending,
                   objects, files, ccall>>

UnregisterTopicHandler(e, topic, callback) ==
    /\ out' = <<Raised("NotImplementedException")>>
    /\ call' = Call("UnregisterTopicHandler", e, topic, NoMsg)
    /\ UNCHANGED <<local, subscriptions, client, m_TopicHandlers, wired, stream,
                   eq, th, subs0, types, pending,
                   objects, files, ccall>>

-----------------------------------------------------------------------------
(* Requests and responses *)

GetMethod(request) == request.method # None
GetID(request) == request.id # None
IsResponseMessage(message) == message.result # None /\ message.method = None

\* ProcessRequest that tests for a bound client instead of IsConnected().
ProcessRequestEffects_BoundOnly(e, sender, request) ==
    IF ~IsLocalEndpoint(e) /\ GetClient(e) = None THEN <<>>
    ELSE IF IsLocalEndpoint(e)
         THEN IF ~GetMethod(request) THEN <<>>
              ELSE IF ~Contains(m_TopicHandlers[e], request.method) THEN <<>>
              ELSE <<Posted(e, sender, request)>>
         ELSE <<Sent(GetClient(e), request)>>

\* ProcessRequest that calls the topic's signal itself instead of posting it.
ProcessRequestEffects_Sync(e, sender, request) ==
    IF ~IsConnected(e) THEN <<>>
    ELSE IF IsLocalEndpoint(e)
         THEN IF ~GetMethod(request) THEN <<>>
              ELSE IF ~Contains(m_TopicHandlers[e], request.method) THEN <<>>
              ELSE [i \in 1..Len(m_TopicHandlers[e][request.method]) |->
                       Invoked(m_TopicHandlers[e][request.method][i], e, sender, request)]
         ELSE <<Sent(GetClient(e), request)>>

\* What ProcessRequest does, as the effects it has.
ProcessRequestEffects(e, sender, request) ==
    IF ~IsConnected(e) THEN <<>>
    ELSE IF IsLocalEndpoint(e)
         THEN IF ~GetMethod(request) THEN <<>>
              ELSE IF ~Contains(m_TopicHandlers[e], request.method) THEN <<>>
              ELSE <<Posted(e, sender, request)>>
         ELSE <<Sent(GetClient(e), request)>>

\* ProcessResponse that treats the response as ProcessRequest treats a request.
ProcessResponseEffects_AsRequest(e, sender, response) ==
    ProcessRequestEffects(e, sender, response)

\* What ProcessResponse does, as the effects it has.
ProcessResponseEffects(e, sender, response) ==
    IF ~IsConnected(e) THEN <<>>
    ELSE IF IsLocalEndpoint(e)
         THEN <<Routed("ProcessResponseMessage", sender, response)>>
         ELSE <<Sent(GetClient(e), response)>>

\* The tasks that a sequence of effects posted, in order.
RECURSIVE PostedTasks(_)
PostedTasks(effects) ==
    IF effects = <<>> THEN <<>>
    ELSE (IF Head(effects)[1] = "Posted"
          THEN <<Task(Head(effects)[2], Head(effects)[3], Head(effects)[4])>>
          ELSE <<>>)
         \o PostedTasks(Tail(effects))

ProcessRequest(e, sender, request) ==
    /\ out' = ProcessRequestEffects(e, sender, request)
    /\ eq' = eq \o PostedTasks(out')
    /\ Len(eq') <= MaxQueue
    /\ call' = Call("ProcessRequest", e, sender, request)
    /\ UNCHANGED <<local, subscriptions, client, m_TopicHandlers, wired, stream,
                   th, subs0, types, pending,
                   objects, files, ccall>>

ProcessResponse(e, sender, response) ==
    /\ out' = ProcessResponseEffects(e, sender, response)
    /\ eq' = eq \o PostedTasks(out')
    /\ call' = Call("ProcessResponse", e, sender, response)
    /\ UNCHANGED <<local, subscriptions, client, m_TopicHandlers, wired, stream,
                   th, subs0, types, pending,
                   objects, files, ccall>>

\* NewMessageHandler that asks for the method before the response test.
NewMessageEffects_MethodFirst(e, message) ==
    IF ~GetMethod(message) THEN <<>>
    ELSE IF IsResponseMessage(message)
    THEN <<Routed("ProcessResponseMessage", e, message)>>
    ELSE IF GetID(message)
         THEN <<Routed("SendAnycastMessage", e, message)>>
         ELSE <<Routed("SendMulticastMessage", e, message)>>

\* NewMessageHandler that takes every message with an id for an anycast.
NewMessageEffects_IdFirst(e, message) ==
    IF GetID(message) THEN <<Routed("SendAnycastMessage", e, message)>>
    ELSE IF IsResponseMessage(message)
    THEN <<Routed("ProcessResponseMessage", e, message)>>
    ELSE IF ~GetMethod(message) THEN <<>>
    ELSE <<Routed("SendMulticastMessage", e, message)>>

\* What NewMessageHandler hands to the endpoint manager.
NewMessageEffects(e, message) ==
    IF IsResponseMessage(message)
    THEN <<Routed("ProcessResponseMessage", e, message)>>
    ELSE IF ~GetMethod(message) THEN <<>>
    ELSE IF GetID(message)
         THEN <<Routed("SendAnycastMessage", e, message)>>
         ELSE <<Routed("SendMulticastMessage", e, message)>>

\* A message arrives on an open connection wired to e.
NewMessageHandler(e, c, message) ==
    /\ <<c, e>> \in wired
    /\ stream[c] = "open"
    /\ out' = NewMessageEffects(e, message)
    /\ call' = Call("NewMessageHandler", e, None, message)
    /\ UNCHANGED <<local, subscriptions, client, m_TopicHandlers, wired, stream,
                   eq, th, subs0, types, pending,
                   objects, files, ccall>>

\* A task that runs only the slot the signal was created with.
TaskCallbacks_First(task) ==
    SubSeq(m_TopicHandlers[task.receiver][task.request.method], 1, 1)

\* The callbacks a task runs: the slots of the bound signal when it runs.
TaskCallbacks(task) == m_TopicHandlers[task.receiver][task.request.method]

\* The task queue runs its oldest task.
RunTask ==
    /\ eq # <<>>
    /\ out' = [i \in 1..Len(TaskCallbacks(Head(eq))) |->
                 Invoked(TaskCallbacks(Head(eq))[i], Head(eq).receiver,
                         Head(eq).sender, Head(eq).request)]
    /\ eq' = Tail(eq)
    /\ call' = Call("RunTask", Head(eq).receiver, Head(eq).sender, Head(eq).request)
    /\ UNCHANGED <<local, subscriptions, client, m_TopicHandlers, wired, stream,
                   th, subs0, types, pending,
                   objects, files, ccall>>

-----------------------------------------------------------------------------
(* Spec: one endpoint object, every method an atomic call *)

Init ==
    /\ local \in [{"e1"} -> LocalValues]
    /\ subscriptions = [e \in {"e1"} |-> Empty]
    /\ client = [e \in {"e1"} |-> None]
    /\ m_TopicHandlers = [e \in {"e1"} |-> NoHandlers]
    /\ wired = {}
    /\ stream = [c \in {"c1"} |-> "open"]
    /\ eq = <<>>
    /\ call = NoCall
    /\ out = <<>>
    /\ th = [t \in Threads |-> Idle]
    /\ subs0 = Empty
    /\ types = RegisteredTypes
    /\ pending = {}
    /\ objects = NoObjects
    /\ files = {}
    /\ ccall = NoConfigCall

Next ==
    \/ \E e \in Endpoints, topic \in Topics : RegisterSubscription(e, topic)
    \/ \E e \in Endpoints, topic \in Topics : UnregisterSubscription(e, topic)
    \/ \E e \in Endpoints : ClearSubscriptions(e)
    \/ \E e \in Endpoints, value \in SubscriptionValues : SetSubscriptions(e, value)
    \/ \E e \in Endpoints, c \in Connections : SetClient(e, c)
    \/ \E e \in Endpoints, c \in Connections : ClientClosedHandler(e, c)
    \/ \E c \in Connections : StreamClosed(c)
    \/ \E e \in Endpoints, topic \in HandlerTopics, cb \in Callbacks :
          RegisterTopicHandler(e, topic, cb)
    \/ \E e \in Endpoints, topic \in Topics, cb \in Callbacks :
          UnregisterTopicHandler(e, topic, cb)
    \/ \E e \in Endpoints, sender \in EndpointNames, request \in Requests :
          ProcessRequest(e, sender, request)
    \/ \E e \in Endpoints, sender \in EndpointNames, response \in Responses :
          ProcessResponse(e, sender, response)
    \/ \E e \in Endpoints, c \in Connections, message \in Requests \cup Responses :
          NewMessageHandler(e, c, message)
    \/ RunTask

Spec == Init /\ [][Next]_vars

-----------------------------------------------------------------------------
(* SpecThreads: two threads, one Endpoint method each, on the same endpoint *)

\* A thread about to make a call.
Start(op, e, arg, msg) ==
    [pc |-> "start", op |-> op, e |-> e, arg |-> arg, msg |-> msg,
     tmp |-> Empty, cl |-> None]

ThreadCalls(e) ==
    {Start(op, e, t, NoMsg) :
        op \in {"RegisterSubscription", "UnregisterSubscription"}, t \in Topics}
    \cup {Start("ProcessRequest", e, "e2", r) : r \in Requests}
    \cup {Start("ProcessResponse", e, "e2", r) : r \in Responses}
    \cup {Start("ClientClosedHandler", e, "c1", NoMsg)}

\* The endpoint is in a state the atomic calls reach; the close handler runs
\* at most once, for a connection that SetClient wired.
InitThreads ==
    /\ local \in [{"e1"} -> LocalValues]
    /\ subscriptions \in [{"e1"} -> SubscriptionValues]
    /\ subs0 = subscriptions["e1"]
    /\ types = RegisteredTypes
    /\ pending = {}
    /\ objects = NoObjects
    /\ files = {}
    /\ ccall = NoConfigCall
    /\ client \in [{"e1"} -> {None, "c1"}]
    /\ wired = {<<client[e], e>> : e \in {x \in {"e1"} : client[x] # None}}
    /\ stream = [c \in {"c1"} |-> "open"]
    /\ m_TopicHandlers \in [{"e1"} -> {NoHandlers, DictSet(NoHandlers, "A", <<"h1">>)}]
    /\ eq = <<>>
    /\ call = NoCall
    /\ out = <<>>
    /\ th \in [Threads -> ThreadCalls("e1")]
    /\ \A t \in Threads :
          th[t].op = "ClientClosedHandler"
          => /\ <<th[t].arg, th[t].e>> \in wired
             /\ \A u \in Threads \ {t} : th[u].op # "ClientClosedHandler"

Goto(t, pc) == [th EXCEPT ![t].pc = pc]

\* Register/UnregisterSubscription: subscriptions = GetSubscriptions().
T_GetSubscriptions(t) ==
    /\ th[t].pc = "start"
    /\ th[t].op \in {"RegisterSubscription", "UnregisterSubscription"}
    /\ th' = [th EXCEPT ![t].pc = "store", ![t].tmp = GetSubscriptions(th[t].e)]
    /\ UNCHANGED <<local, subscriptions, client, m_TopicHandlers, wired, stream,
                   eq, call, out, subs0, types, pending,
                   objects, files, ccall>>

\* Register/UnregisterSubscription: the test, the clone and SetSubscriptions.
T_SetSubscriptions(t) ==
    /\ th[t].pc = "store"
    /\ LET upd == IF th[t].op = "RegisterSubscription"
                  THEN RegisterSubscriptionOn(th[t].tmp, th[t].arg)
                  ELSE UnregisterSubscriptionOn(th[t].tmp, th[t].arg)
       IN  /\ subscriptions' = [subscriptions EXCEPT
                                   ![th[t].e] = IF upd.set THEN upd.value ELSE @]
           /\ out' = out \o (IF upd.set
                             THEN OnAttributeChanged(th[t].e, "subscriptions",
                                                     subscriptions[th[t].e], upd.value)
                             ELSE <<>>)
    /\ th' = Goto(t, "done")
    /\ UNCHANGED <<local, client, m_TopicHandlers, wired, stream, eq, call, subs0, types, pending,
                   objects, files, ccall>>

\* ProcessRequest/ProcessResponse: if (!IsConnected()) return.
T_IsConnected(t) ==
    /\ th[t].pc = "start"
    /\ th[t].op \in {"ProcessRequest", "ProcessResponse"}
    /\ th' = Goto(t, IF IsConnected(th[t].e) THEN "dispatch" ELSE "done")
    /\ UNCHANGED <<local, subscriptions, client, m_TopicHandlers, wired, stream,
                   eq, call, out, subs0, types, pending,
                   objects, files, ccall>>

\* ProcessRequest/ProcessResponse on a local endpoint: the local branch.
T_DispatchLocal(t) ==
    /\ th[t].pc = "dispatch"
    /\ IsLocalEndpoint(th[t].e)
    /\ LET effects ==
             IF th[t].op = "ProcessResponse"
             THEN <<Routed("ProcessResponseMessage", th[t].arg, th[t].msg)>>
             ELSE IF ~GetMethod(th[t].msg) THEN <<>>
             ELSE IF ~Contains(m_TopicHandlers[th[t].e], th[t].msg.method) THEN <<>>
             ELSE <<Posted(th[t].e, th[t].arg, th[t].msg)>>
       IN  /\ out' = out \o effects
           /\ eq' = eq \o PostedTasks(effects)
    /\ th' = Goto(t, "done")
    /\ UNCHANGED <<local, subscriptions, client, m_TopicHandlers, wired, stream,
                   call, subs0, types, pending,
                   objects, files, ccall>>

\* ProcessRequest/ProcessResponse on a remote endpoint:
\* GetClient()->SendMessage(...).  Calling through an absent client is
\* undefined: the call faults, or it returns and the message is lost.
T_SendMessage(t) ==
    /\ th[t].pc = "dispatch"
    /\ ~IsLocalEndpoint(th[t].e)
    /\ \/ /\ GetClient(th[t].e) # None
          /\ out' = out \o <<Sent(GetClient(th[t].e), th[t].msg)>>
          /\ th' = [th EXCEPT ![t].pc = "done", ![t].cl = GetClient(th[t].e)]
       \/ /\ GetClient(th[t].e) = None
          /\ out' = out
          /\ \E outcome \in {"crashed", "done"} : th' = Goto(t, outcome)
    /\ UNCHANGED <<local, subscriptions, client, m_TopicHandlers, wired, stream,
                   eq, call, subs0, types, pending,
                   objects, files, ccall>>

\* The connection goes down and ClientClosedHandler starts: ClearSubscriptions().
T_ClearSubscriptions(t) ==
    /\ th[t].pc = "start"
    /\ th[t].op = "ClientClosedHandler"
    /\ stream' = [stream EXCEPT ![th[t].arg] = "closed"]
    /\ subscriptions' = [subscriptions EXCEPT ![th[t].e] = Empty]
    /\ out' = out \o OnAttributeChanged(th[t].e, "subscriptions",
                                        subscriptions[th[t].e], Empty)
    /\ th' = Goto(t, "detach")
    /\ UNCHANGED <<local, client, m_TopicHandlers, wired, eq, call, subs0, types, pending,
                   objects, files, ccall>>

\* ClientClosedHandler: Set("client", Empty).
T_DetachClient(t) ==
    /\ th[t].pc = "detach"
    /\ client' = [client EXCEPT ![th[t].e] = None]
    /\ th' = Goto(t, "notify")
    /\ UNCHANGED <<local, subscriptions, m_TopicHandlers, wired, stream, eq,
                   call, out, subs0, types, pending,
                   objects, files, ccall>>

\* ClientClosedHandler: OnDisconnected(GetSelf()).
T_OnDisconnected(t) ==
    /\ th[t].pc = "notify"
    /\ out' = out \o <<Disconnected(th[t].e)>>
    /\ th' = Goto(t, "done")
    /\ UNCHANGED <<local, subscriptions, client, m_TopicHandlers, wired, stream,
                   eq, call, subs0, types, pending,
                   objects, files, ccall>>

NextThreads ==
    \/ \E t \in Threads : T_GetSubscriptions(t)
    \/ \E t \in Threads : T_SetSubscriptions(t)
    \/ \E t \in Threads : T_IsConnected(t)
    \/ \E t \in Threads : T_DispatchLocal(t)
    \/ \E t \in Threads : T_SendMessage(t)
    \/ \E t \in Threads : T_ClearSubscriptions(t)
    \/ \E t \in Threads : T_DetachClient(t)
    \/ \E t \in Threads : T_OnDisconnected(t)

SpecThreads == InitThreads /\ [][NextThreads]_vars

\* The attribute value after one Register/UnregisterSubscription call ran alone.
Serial(c, subs) ==
    LET upd == IF c.op = "RegisterSubscription"
               THEN RegisterSubscriptionOn(subs, c.arg)
               ELSE UnregisterSubscriptionOn(subs, c.arg)
    IN  IF upd.set THEN upd.value ELSE subs

\* C3: when two threads have run one RegisterSubscription or
\* UnregisterSubscription call each on the same endpoint, the subscription
\* set is the one some serial order of the two calls gives.
C3_SerialOutcome ==
    (\A t \in Threads :
        /\ th[t].pc = "done"
        /\ th[t].op \in {"RegisterSubscription", "UnregisterSubscription"})
    => \E a, b \in Threads :
          /\ a # b
          /\ TopicsOf(subscriptions[th[a].e]) = TopicsOf(Serial(th[b], Serial(th[a], subs0)))

\* C4: a ProcessRequest or ProcessResponse that races with ClientClosedHandler
\* sends on the bound connection or loses the message; the send path never
\* goes through an absent client.
C4_SendNeverUsesAbsentClient ==
    \A t \in Threads :
        /\ th[t].pc # "crashed"
        /\ (th[t].pc = "dispatch" /\ ~IsLocalEndpoint(th[t].e)) => client[th[t].e] # None

-----------------------------------------------------------------------------
(* Claims *)


\* The number of occurrences of effect x in a sequence of effects.
Count(effects, x) == Cardinality({i \in 1..Len(effects) : effects[i] = x})

\* C1: after RegisterSubscription(t) returns HasSubscription(t) is true, after
\* UnregisterSubscription(t) returns it is false, and neither call changes
\* the membership of any other topic.
C1_RegisterThenUnregister ==
    [][\A e \in Endpoints, t \in Topics :
         /\ call' = Call("RegisterSubscription", e, t, NoMsg)
               => /\ HasSubscription(e, t)'
                  /\ \A u \in Topics \ {t} : HasSubscription(e, u)' = HasSubscription(e, u)
         /\ call' = Call("UnregisterSubscription", e, t, NoMsg)
               => /\ ~HasSubscription(e, t)'
                  /\ \A u \in Topics \ {t} : HasSubscription(e, u)' = HasSubscription(e, u)
      ]_vars

\* C1 witness: a subscribed topic was just unregistered while another topic
\* stays subscribed.
C1_Witness ==
    \E e \in Endpoints, t \in Topics :
        /\ call = Call("UnregisterSubscription", e, t, NoMsg)
        /\ out = <<Unregistered(e, t)>>
        /\ \E u \in Topics \ {t} : HasSubscription(e, u)

\* C2: a mutation of the subscription set from Old to New emits Unregistered(t)
\* exactly once for each t in Old \ New, Registered(t) exactly once for each t
\* in New \ Old, and nothing else.
C2_DiffEvents ==
    [][\A e \in Endpoints :
         (/\ call'[1] \in {"RegisterSubscription", "UnregisterSubscription",
                           "SetSubscriptions", "ClearSubscriptions"}
          /\ call'[2] = e)
         => LET Old == TopicsOf(subscriptions[e])
                New == TopicsOf(subscriptions'[e])
            IN  /\ \A t \in Topics :
                      /\ Count(out', Unregistered(e, t)) = IF t \in Old \ New THEN 1 ELSE 0
                      /\ Count(out', Registered(e, t)) = IF t \in New \ Old THEN 1 ELSE 0
                /\ Len(out') = Cardinality(Old \ New) + Cardinality(New \ Old)
      ]_vars

\* C2 witness: one SetSubscriptions call removed a topic, added another and
\* kept a third.
C2_Witness ==
    \E e \in Endpoints :
        /\ call[1] = "SetSubscriptions"
        /\ \E a, b \in Topics :
              /\ out = <<Unregistered(e, a), Registered(e, b)>>
              /\ \E k \in Topics \ {a, b} : HasSubscription(e, k)

\* C5: the client attribute of a local endpoint is absent in every reachable
\* state, also after a SetClient call on it.
C5_LocalClientAbsent ==
    \A e \in Endpoints : local[e] = "true" => client[e] = None

\* C6: IsConnected() is true for a local endpoint in every reachable state.
C6_LocalAlwaysConnected ==
    \A e \in Endpoints : local[e] = "true" => IsConnected(e)

\* C6 witness: a local endpoint with no client bound and no subscription,
\* right after a close event.
C6_Witness ==
    \E e \in Endpoints :
        /\ local[e] = "true"
        /\ call[1] = "ClientClosedHandler"
        /\ client[e] = None
        /\ IsConnected(e)

\* C7: for a remote endpoint IsConnected() is true iff a client is bound and
\* the stream of the bound connection reports connected.
C7_RemoteConnectedIffBound ==
    \A e \in Endpoints :
        local[e] # "true"
        => (IsConnected(e) <=> (client[e] # None /\ stream[client[e]] = "open"))

\* C7 witness: a remote endpoint whose bound connection is down, so that
\* IsConnected() is false although a client is bound.
C7_Witness ==
    \E e \in Endpoints :
        /\ local[e] # "true"
        /\ client[e] # None
        /\ stream[client[e]] = "closed"
        /\ ~IsConnected(e)

\* C8: after SetClient(c) and the closed event of c on a remote endpoint the
\* subscription set is empty, the client is absent and IsConnected() is false.
C8_ClosedClearsEndpoint ==
    \A e \in Endpoints, c \in Connections :
        (call = Call("ClientClosedHandler", e, c, NoMsg) /\ local[e] # "true")
        => /\ TopicsOf(subscriptions[e]) = {}
           /\ client[e] = None
           /\ ~IsConnected(e)

\* C8 witness: the close handler ran on a remote endpoint that had a
\* subscription.
C8_Witness ==
    \E e \in Endpoints, c \in Connections, t \in Topics :
        /\ call = Call("ClientClosedHandler", e, c, NoMsg)
        /\ local[e] # "true"
        /\ <<c, e>> \in wired
        /\ Count(out, Unregistered(e, t)) = 1

\* C9: ProcessRequest and ProcessResponse on an endpoint that is not connected
\* send, post, route and raise nothing and change no state of the endpoint.
C9_DisconnectedIsNoOp ==
    [][\A e \in Endpoints :
         (/\ call'[1] \in {"ProcessRequest", "ProcessResponse"}
          /\ call'[2] = e
          /\ ~IsConnected(e))
         => /\ out' = <<>>
            /\ UNCHANGED <<local, subscriptions, client, m_TopicHandlers, wired,
                           stream, eq>>
      ]_vars

\* C9 witness: a request with a method was processed by an endpoint whose
\* bound connection is down.
C9_Witness ==
    \E e \in Endpoints :
        /\ call[1] = "ProcessRequest"
        /\ call[2] = e
        /\ call[4].method # None
        /\ client[e] # None
        /\ ~IsConnected(e)

\* The number of handlers registered on e for a method.
HandlerCount(e, method) ==
    IF method \in DOMAIN m_TopicHandlers[e] THEN Len(m_TopicHandlers[e][method]) ELSE 0

\* C10: ProcessRequest on a local endpoint posts exactly one task carrying
\* (receiver, sender, request) if a handler is registered for the method and
\* posts nothing otherwise, never invoking a handler itself; on a connected
\* remote endpoint it sends the request once on the bound connection.
C10_ProcessRequestDispatch ==
    [][\A e \in Endpoints, s \in EndpointNames, r \in Requests :
         call' = Call("ProcessRequest", e, s, r)
         => /\ UNCHANGED <<local, subscriptions, client, m_TopicHandlers, wired, stream>>
            /\ local[e] = "true" /\ r.method # None /\ HandlerCount(e, r.method) >= 1
                  => out' = <<Posted(e, s, r)>> /\ eq' = Append(eq, Task(e, s, r))
            /\ local[e] = "true" /\ (r.method = None \/ HandlerCount(e, r.method) = 0)
                  => out' = <<>> /\ eq' = eq
            /\ local[e] # "true" /\ client[e] # None /\ stream[client[e]] = "open"
                  => out' = <<Sent(client[e], r)>> /\ eq' = eq
      ]_vars

\* C10 witness: a local endpoint with a handler for the method posted the
\* request of another sender.
C10_Witness ==
    \E e \in Endpoints, s \in EndpointNames, r \in Requests :
        /\ call = Call("ProcessRequest", e, s, r)
        /\ s # e
        /\ local[e] = "true"
        /\ HandlerCount(e, r.method) >= 1
        /\ out = <<Posted(e, s, r)>>
        /\ eq # <<>>

\* C11: ProcessResponse on a local endpoint hands the response to
\* ProcessResponseMessage and posts or invokes no topic handler; on a
\* connected remote endpoint it sends the response on the bound connection.
C11_ProcessResponseRouting ==
    [][\A e \in Endpoints, s \in EndpointNames, r \in Responses :
         call' = Call("ProcessResponse", e, s, r)
         => /\ UNCHANGED <<local, subscriptions, client, m_TopicHandlers, wired, stream>>
            /\ local[e] = "true"
                  => out' = <<Routed("ProcessResponseMessage", s, r)>> /\ eq' = eq
            /\ local[e] # "true" /\ client[e] # None /\ stream[client[e]] = "open"
                  => out' = <<Sent(client[e], r)>> /\ eq' = eq
      ]_vars

\* C11 witness: a local endpoint with a registered topic handler routed a
\* response to the response correlation.
C11_Witness ==
    \E e \in Endpoints, s \in EndpointNames, r \in Responses :
        /\ call = Call("ProcessResponse", e, s, r)
        /\ local[e] = "true"
        /\ \E t \in Topics : HandlerCount(e, t) >= 1
        /\ out = <<Routed("ProcessResponseMessage", s, r)>>

\* C12: an inbound message goes to at most one router operation: a
\* response-shaped one to ProcessResponseMessage, else a request with method
\* and id to SendAnycastMessage, else one with a method to
\* SendMulticastMessage; the sender passed is the receiving endpoint.
C12_InboundClassification ==
    [][\A e \in Endpoints, m \in Requests \cup Responses :
         call' = Call("NewMessageHandler", e, None, m)
         => /\ UNCHANGED <<local, subscriptions, client, m_TopicHandlers, wired,
                           stream, eq>>
            /\ Len(out') <= 1
            /\ out' = IF m.result # None /\ m.method = None
                      THEN <<Routed("ProcessResponseMessage", e, m)>>
                      ELSE IF m.method # None /\ m.id # None
                      THEN <<Routed("SendAnycastMessage", e, m)>>
                      ELSE IF m.method # None
                      THEN <<Routed("SendMulticastMessage", e, m)>>
                      ELSE <<>>
      ]_vars

\* C12 witness: a response arrived on the connection and went to the
\* response correlation with the receiving endpoint as sender.
C12_Witness ==
    \E e \in Endpoints, m \in Responses :
        /\ call = Call("NewMessageHandler", e, None, m)
        /\ m.id # None
        /\ out = <<Routed("ProcessResponseMessage", e, m)>>

\* C13: UnregisterTopicHandler always ends in the not-implemented error and
\* leaves the handler table and the subscriptions as they were.
C13_UnregisterHandlerNotImplemented ==
    [][\A e \in Endpoints :
         (call'[1] = "UnregisterTopicHandler" /\ call'[2] = e)
         => /\ out' = <<Raised("NotImplementedException")>>
            /\ UNCHANGED <<local, subscriptions, client, m_TopicHandlers, wired,
                           stream, eq>>
      ]_vars

\* C13 witness: the call was made for a topic that has a handler and a
\* subscription, and both are still there.
C13_Witness ==
    \E e \in Endpoints, t \in Topics :
        /\ call = Call("UnregisterTopicHandler", e, t, NoMsg)
        /\ out = <<Raised("NotImplementedException")>>
        /\ HandlerCount(e, t) >= 1
        /\ HasSubscription(e, t)

\* The handlers of a topic, none if the topic has no signal.
HandlersOf(handlers, t) == IF t \in DOMAIN handlers THEN handlers[t] ELSE <<>>

\* C14: after RegisterTopicHandler(topic, callback) the callback is the last
\* handler of the topic, after those it had, and the topic is subscribed; no
\* Registered event is emitted when the topic was subscribed before.
C14_RegisterTopicHandler ==
    [][\A e \in Endpoints, t \in Topics :
         call' = Call("RegisterTopicHandler", e, t, NoMsg)
         => LET old == HandlersOf(m_TopicHandlers[e], t)
                new == HandlersOf(m_TopicHandlers'[e], t)
            IN  /\ Len(new) = Len(old) + 1
                /\ SubSeq(new, 1, Len(old)) = old
                /\ new[Len(new)] \in Callbacks
                /\ HasSubscription(e, t)'
                /\ HasSubscription(e, t) => Count(out', Registered(e, t)) = 0
      ]_vars

\* C14 witness: a second handler was registered for a topic whose
\* subscription had been removed, and the topic was subscribed again.
C14_Witness ==
    \E e \in Endpoints, t \in Topics :
        /\ call = Call("RegisterTopicHandler", e, t, NoMsg)
        /\ HandlerCount(e, t) = 2
        /\ out = <<Registered(e, t)>>
        /\ HasSubscription(e, t)

\* C17: a request without a method, inbound or given to ProcessRequest on a
\* local endpoint, has an outcome that differs from the one of a routing
\* miss, which is no effect at all.
C17_MissingMethodIsDistinct ==
    \A e \in Endpoints :
        /\ (/\ call[1] = "NewMessageHandler"
            /\ call[2] = e
            /\ ~(call[4].result # None /\ call[4].method = None)
            /\ call[4].method = None)
           => out # <<>>
        /\ (/\ call[1] = "ProcessRequest"
            /\ call[2] = e
            /\ local[e] = "true"
            /\ call[4].method = None)
           => out # <<>>

\* The Service attributes stated to be replicated.
ServiceReplicated ==
    {"next_check", "checker", "check_attempt", "state", "state_type", "last_result",
     "last_state_change", "last_hard_state_change", "enable_active_checks",
     "enable_passive_checks", "force_next_check", "acknowledgement",
     "acknowledgement_expiry", "downtimes", "comments", "last_notification",
     "next_notification"}

\* Attribute names asked for: the listed ones and some that no table has.
AttributeNames ==
    ServiceReplicated
    \cup {"scheduling_offset", "first_check", "node", "service", "subscriptions",
          "client", "local", "name", "unknown"}

\* C18: in every reachable state the class of an attribute is the fixed one:
\* for Endpoint Replicated exactly for node, service and subscriptions, for
\* Service Replicated exactly for the listed attributes other than
\* scheduling_offset and first_check, Transient for everything else.
C18_Classification ==
    \A name \in AttributeNames :
        /\ Lookup("Endpoint", name) =
              IF name \in {"node", "service", "subscriptions"}
              THEN "Replicated" ELSE "Transient"
        /\ Lookup("Service", name) =
              IF name \in ServiceReplicated THEN "Replicated" ELSE "Transient"

\* C18 witness: a connection was bound and subscriptions exist, and the
\* client attribute is still transient.
C18_Witness ==
    \E e \in Endpoints :
        /\ call[1] = "SetClient"
        /\ client[e] # None
        /\ TopicsOf(subscriptions[e]) # {}
        /\ Lookup("Endpoint", "client") = "Transient"
        /\ Lookup("Endpoint", "subscriptions") = "Replicated"

\* C19: one ClientClosedHandler run first emits Unregistered(t) once for every
\* topic t subscribed just before the close, then detaches the client, then
\* emits exactly one Disconnected; when Disconnected is emitted the
\* subscription set is empty and the client is absent.
C19_CloseOrdering ==
    [][\A t \in Threads :
         th[t].op = "ClientClosedHandler"
         => LET e == th[t].e
            IN  /\ (th[t].pc = "start" /\ th'[t].pc = "detach")
                   => /\ \A tp \in TopicsOf(subscriptions[e]) :
                            Count(out', Unregistered(e, tp))
                               = Count(out, Unregistered(e, tp)) + 1
                      /\ client'[e] = client[e]
                      /\ Count(out', Disconnected(e)) = 0
                /\ (th[t].pc = "detach" /\ th'[t].pc = "notify")
                   => /\ client'[e] = None
                      /\ Count(out', Disconnected(e)) = 0
                /\ (th[t].pc = "notify" /\ th'[t].pc = "done")
                   => /\ TopicsOf(GetSubscriptions(e)) = {}
                      /\ GetClient(e) = None
                      /\ Count(out', Disconnected(e)) = 1
      ]_vars

-----------------------------------------------------------------------------
(* SpecFair: posted dispatches and a task queue that keeps running *)

\* The request each caller gives to ProcessRequest, the caller as sender.
FairRequest(t) ==
    Start("ProcessRequest", "e1", IF t = "t1" THEN "e1" ELSE "e2",
          Message("A", None, None))

\* A local endpoint with a handler for topic A and a connection bound to it;
\* each caller is about to call ProcessRequest once.
InitFair ==
    /\ local = [e \in {"e1"} |-> "true"]
    /\ subscriptions \in [{"e1"} -> SubscriptionValues]
    /\ subs0 = subscriptions["e1"]
    /\ types = RegisteredTypes
    /\ pending = {}
    /\ objects = NoObjects
    /\ files = {}
    /\ ccall = NoConfigCall
    /\ client = [e \in {"e1"} |-> "c1"]
    /\ wired = {<<"c1", "e1">>}
    /\ stream = [c \in {"c1"} |-> "open"]
    /\ m_TopicHandlers = [e \in {"e1"} |-> DictSet(NoHandlers, "A", <<"h1">>)]
    /\ eq = <<>>
    /\ call = NoCall
    /\ out = <<>>
    /\ th = [t \in Threads |-> FairRequest(t)]

NextFair ==
    \/ \E t \in Threads : T_IsConnected(t)
    \/ \E t \in Threads : T_DispatchLocal(t)
    \/ RunTask
    \/ \E e \in Endpoints, topic \in Topics : UnregisterSubscription(e, topic)
    \/ \E e \in Endpoints : ClearSubscriptions(e)
    \/ \E e \in Endpoints, c \in Connections : ClientClosedHandler(e, c)

\* The queue's worker is never held back for ever while a task is waiting.
SpecFair == InitFair /\ [][NextFair]_vars /\ WF_vars(RunTask)

\* The tasks waiting in the queue.
Queued == {eq[i] : i \in 1..Len(eq)}

\* The dispatch a caller's ProcessRequest posts.
TaskOf(t) == Task(FairRequest(t).e, FairRequest(t).arg, FairRequest(t).msg)

\* C20: a dispatch that ProcessRequest posted for a local endpoint is
\* executed, once and after the dispatches posted before it, whatever
\* UnregisterSubscription, ClearSubscriptions or ClientClosedHandler do in
\* between: the queue changes only by a post at its end or by running its
\* head, and with a fair queue every posted dispatch is eventually run.
C20_PostedDispatchRuns ==
    /\ [][eq' # eq
          => \/ \E t \in Threads :
                   /\ th[t].pc = "dispatch" /\ th'[t].pc = "done"
                   /\ eq' = Append(eq, TaskOf(t))
             \/ /\ eq # <<>>
                /\ eq' = Tail(eq)
                /\ Head(eq) \notin {eq'[i] : i \in 1..Len(eq')}
                /\ call' = Call("RunTask", Head(eq).receiver, Head(eq).sender,
                                Head(eq).request)
                /\ out' = <<Invoked("h1", Head(eq).receiver, Head(eq).sender,
                                    Head(eq).request)>>
        ]_vars
    /\ \A t \in Threads :
          (TaskOf(t) \in Queued)
             ~> (/\ TaskOf(t) \notin Queued
                 /\ call = Call("RunTask", TaskOf(t).receiver, TaskOf(t).sender,
                                TaskOf(t).request))

\* C20 witness: the second dispatch ran after the first, with the
\* subscriptions cleared and the connection closed.
C20_Witness ==
    /\ call = Call("RunTask", "e1", "e1", Message("A", None, None))
    /\ out = <<Invoked("h1", "e1", "e1", Message("A", None, None))>>
    /\ th["t2"].pc = "done" /\ TaskOf("t2") \notin Queued
    /\ eq = <<>>
    /\ stream["c1"] = "closed"
    /\ TopicsOf(GetSubscriptions("e1")) = {}

-----------------------------------------------------------------------------
(* SpecRouter: two endpoints and the endpoint manager's routing *)

EndpointOrder == <<"e1", "e2">>
RouterTopics == {"A"}
RouterRequests == Requests \cup {Message("A", "id1", None)}
RouterResponses == Responses \cup {Message(None, "id2", "ok")}

\* The router called ProcessRequest on an endpoint; a pending call completed.
Delivered(e, sender, m) == Effect("ProcessRequest", e, sender, m)
Completed(sender, m) == Effect("Completed", sender, m.id, m)

\* The fan-out over the known endpoints from the i-th on.
RECURSIVE MulticastEffects(_, _, _)
MulticastEffects(i, sender, request) ==
    IF i > Len(EndpointOrder) THEN <<>>
    ELSE LET e == EndpointOrder[i]
         IN  (IF e \in Endpoints /\ HasSubscription(e, request.method)
              THEN <<Delivered(e, sender, request)>>
                      \o ProcessRequestEffects(e, sender, request)
              ELSE <<>>)
             \o MulticastEffects(i + 1, sender, request)

\* What a router operation does, with d the destination an anycast resolves.
RouterEffects(op, d, sender, m) ==
    IF op = "SendMulticastMessage"
    THEN (IF GetMethod(m) THEN MulticastEffects(1, sender, m) ELSE <<>>)
    ELSE IF op = "SendAnycastMessage"
    THEN <<Delivered(d, sender, m)>> \o ProcessRequestEffects(d, sender, m)
    ELSE IF m.id \in pending THEN <<Completed(sender, m)>> ELSE <<>>

\* The pending-call table after a router operation.
RouterPending(op, m) ==
    IF op = "SendAnycastMessage" THEN pending \cup {m.id}
    ELSE IF op = "ProcessResponseMessage" THEN pending \ {m.id}
    ELSE pending

SendMulticastMessage(sender, request) ==
    /\ out' = RouterEffects("SendMulticastMessage", None, sender, request)
    /\ eq' = eq \o PostedTasks(out')
    /\ Len(eq') <= MaxQueue
    /\ call' = Call("SendMulticastMessage", sender, None, request)
    /\ UNCHANGED <<local, subscriptions, client, m_TopicHandlers, wired, stream,
                   th, subs0, types, pending,
                   objects, files, ccall>>

SendAnycastMessage(sender, request) ==
    /\ \E d \in Endpoints :
          out' = RouterEffects("SendAnycastMessage", d, sender, request)
    /\ eq' = eq \o PostedTasks(out')
    /\ Len(eq') <= MaxQueue
    /\ pending' = RouterPending("SendAnycastMessage", request)
    /\ call' = Call("SendAnycastMessage", sender, None, request)
    /\ UNCHANGED <<local, subscriptions, client, m_TopicHandlers, wired, stream,
                   th, subs0, types,
                   objects, files, ccall>>

ProcessResponseMessage(sender, response) ==
    /\ out' = RouterEffects("ProcessResponseMessage", None, sender, response)
    /\ pending' = RouterPending("ProcessResponseMessage", response)
    /\ call' = Call("ProcessResponseMessage", sender, None, response)
    /\ UNCHANGED <<local, subscriptions, client, m_TopicHandlers, wired, stream,
                   eq, th, subs0, types,
                   objects, files, ccall>>

\* A message arrives on the connection of e: NewMessageHandler, and the
\* router operation it calls.
InboundMessage(e, c, message) ==
    /\ stream[c] = "open"
    /\ <<c, e>> \in wired
    /\ LET routed == NewMessageEffects(e, message)
       IN  IF routed = <<>>
           THEN out' = <<>> /\ eq' = eq /\ pending' = pending
           ELSE /\ \E d \in Endpoints :
                      out' = routed \o RouterEffects(routed[1][1], d, routed[1][2],
                                                     routed[1][4])
                /\ eq' = eq \o PostedTasks(out')
                /\ Len(eq') <= MaxQueue
                /\ pending' = RouterPending(routed[1][1], routed[1][4])
    /\ call' = Call("NewMessageHandler", e, None, message)
    /\ UNCHANGED <<local, subscriptions, client, m_TopicHandlers, wired, stream,
                   th, subs0, types,
                   objects, files, ccall>>

\* e1 is local; e2 is local, or remote with or without a bound connection.
InitRouter ==
    /\ local \in {[e \in {"e1", "e2"} |-> IF e = "e1" THEN "true" ELSE v] :
                     v \in {"true", "false"}}
    /\ client \in {[e \in {"e1", "e2"} |-> IF e = "e1" THEN None ELSE c] :
                      c \in {None, "c1"}}
    /\ local["e2"] = "true" => client["e2"] = None
    /\ wired = {<<client[e], e>> : e \in {x \in {"e1", "e2"} : client[x] # None}}
    /\ stream = [c \in {"c1"} |-> "open"]
    /\ subscriptions = [e \in {"e1", "e2"} |-> Empty]
    /\ m_TopicHandlers = [e \in {"e1", "e2"} |-> NoHandlers]
    /\ eq = <<>>
    /\ call = NoCall
    /\ out = <<>>
    /\ th = [t \in Threads |-> Idle]
    /\ subs0 = Empty
    /\ types = RegisteredTypes
    /\ pending = {}
    /\ objects = NoObjects
    /\ files = {}
    /\ ccall = NoConfigCall

\* The calls made by this process come from its local endpoints.
LocalEndpoints == {e \in Endpoints : IsLocalEndpoint(e)}

NextRouter ==
    \/ \E topic \in RouterTopics, cb \in Callbacks :
          HandlerCount("e1", topic) = 0 /\ RegisterTopicHandler("e1", topic, cb)
    \/ \E e \in Endpoints, topic \in RouterTopics : RegisterSubscription(e, topic)
    \/ \E e \in Endpoints, topic \in RouterTopics : UnregisterSubscription(e, topic)
    \/ \E sender \in LocalEndpoints, request \in {r \in RouterRequests : r.id = None} :
          SendMulticastMessage(sender, request)
    \/ \E sender \in LocalEndpoints, request \in {r \in RouterRequests : r.id # None} :
          SendAnycastMessage(sender, request)
    \/ \E sender \in LocalEndpoints, response \in RouterResponses :
          ProcessResponseMessage(sender, response)
    \/ \E e \in Endpoints, c \in Connections,
          message \in RouterRequests \cup RouterResponses :
          InboundMessage(e, c, message)
    \/ RunTask

SpecRouter == InitRouter /\ [][NextRouter]_vars

\* One multicast of request r by sender s: one ProcessRequest for every
\* endpoint whose set holds the topic, none for the others, and one posted
\* dispatch for every such local endpoint that has handlers for the topic.
MulticastDelivery(s, r) ==
    \A e \in Endpoints :
        LET has == r.method \in TopicsOf(subscriptions[e])
        IN  /\ Count(out', Delivered(e, s, r)) = IF has THEN 1 ELSE 0
            /\ Count(out', Posted(e, s, r)) =
                  IF has /\ local[e] = "true" /\ HandlerCount(e, r.method) >= 1
                  THEN 1 ELSE 0
            /\ Count(out', Sent(client[e], r)) =
                  IF has /\ local[e] # "true" /\ client[e] # None THEN 1 ELSE 0

\* C15: SendMulticastMessage(sender, request without id) for topic T is
\* delivered once to every known endpoint whose subscription set holds T then
\* and to no other; a subscribed local endpoint with handler h registered
\* once for T has h invoked exactly once with (endpoint, sender, request) when
\* the posted dispatch runs.
C15_MulticastDelivery ==
    [][\A s \in EndpointNames, r \in RouterRequests :
         /\ (call' = Call("SendMulticastMessage", s, None, r) /\ r.method # None)
            => MulticastDelivery(s, r)
         /\ (/\ call' = Call("NewMessageHandler", s, None, r)
             /\ r.method # None /\ r.id = None)
            => MulticastDelivery(s, r)
         /\ \A e \in Endpoints :
               (call' = Call("RunTask", e, s, r) /\ eq' # eq)
               => /\ Len(out') = HandlerCount(e, r.method)
                  /\ \A i \in 1..Len(out') : out'[i] = Invoked("h1", e, s, r)
      ]_vars

\* C15 witness: e1 holds topic A with one handler, e2 does not hold it;
\* a multicast reached e1 only, and its dispatch was posted.
C15_Witness ==
    \E s \in EndpointNames :
        /\ call = Call("SendMulticastMessage", s, None, Message("A", None, None))
        /\ HandlerCount("e1", "A") = 1
        /\ ~HasSubscription("e2", "A")
        /\ out = <<Delivered("e1", s, Message("A", None, None)),
                   Posted("e1", s, Message("A", None, None))>>

\* One anycast: a single ProcessRequest call, and the id is outstanding.
AnycastDelivery(m) ==
    /\ Cardinality({i \in 1..Len(out') : out'[i][1] = "ProcessRequest"}) = 1
    /\ m.id \in pending'

\* One response given to the correlation: it completes the pending call of
\* its id if there is one, else nothing happens.
ResponseCorrelation(s, m) ==
    /\ \A i \in 1..Len(out') : out'[i][1] # "Raised"
    /\ IF m.id \in pending
       THEN pending' = pending \ {m.id} /\ Count(out', Completed(s, m)) = 1
       ELSE pending' = pending /\ Count(out', Completed(s, m)) = 0

\* C16: a request with an id sent by SendAnycastMessage gets one delivery to
\* one endpoint; the first later response with that id completes one pending
\* call; a response whose id has no pending call is dropped with no error
\* and leaves the pending-call table as it was.
C16_AnycastAndResponse ==
    [][\A s \in EndpointNames, m \in RouterRequests \cup RouterResponses :
         /\ call' = Call("SendAnycastMessage", s, None, m) => AnycastDelivery(m)
         /\ call' = Call("ProcessResponseMessage", s, None, m)
               => ResponseCorrelation(s, m)
         /\ (/\ call' = Call("NewMessageHandler", s, None, m)
             /\ m.method # None /\ m.id # None)
            => AnycastDelivery(m)
         /\ (/\ call' = Call("NewMessageHandler", s, None, m)
             /\ m.method = None /\ m.result # None)
            => ResponseCorrelation(s, m)
      ]_vars

\* C16 witness: the response to an outstanding anycast arrived on the
\* connection of e2 and completed the pending call.
C16_Witness ==
    /\ call = Call("NewMessageHandler", "e2", None, Message(None, "id1", "ok"))
    /\ Count(out, Completed("e2", Message(None, "id1", "ok"))) = 1
    /\ "id1" \notin pending

-----------------------------------------------------------------------------
(* SpecRebind: one remote endpoint and two connections *)

\* A remote endpoint with no subscriptions, and two open connections that
\* SetClient has not seen yet.
InitRebind ==
    /\ local \in [{"e1"} -> {None, "false"}]
    /\ subscriptions = [e \in {"e1"} |-> Empty]
    /\ client = [e \in {"e1"} |-> None]
    /\ m_TopicHandlers = [e \in {"e1"} |-> NoHandlers]
    /\ wired = {}
    /\ stream = [c \in {"c1", "c2"} |-> "open"]
    /\ eq = <<>>
    /\ call = NoCall
    /\ out = <<>>
    /\ th = [t \in Threads |-> Idle]
    /\ subs0 = Empty
    /\ types = RegisteredTypes
    /\ pending = {}
    /\ objects = NoObjects
    /\ files = {}
    /\ ccall = NoConfigCall

NextRebind ==
    \/ \E e \in Endpoints, c \in Connections : SetClient(e, c)
    \/ \E e \in Endpoints, c \in Connections : ClientClosedHandler(e, c)
    \/ \E e \in Endpoints, topic \in Topics : RegisterSubscription(e, topic)
    \/ \E e \in Endpoints, c \in Connections, message \in Requests \cup Responses :
          NewMessageHandler(e, c, message)

SpecRebind == InitRebind /\ [][NextRebind]_vars

\* C21: after SetClient(c1) and then SetClient(c2) a remote endpoint is bound
\* to c2 only: the closed event of the replaced c1 leaves the client, the
\* subscriptions and the Disconnected signal alone, and no open connection
\* other than the bound one delivers its messages to the endpoint.
C21_ReboundToNewOnly ==
    [][\A e \in Endpoints, c \in Connections :
         /\ (/\ call' = Call("ClientClosedHandler", e, c, NoMsg)
             /\ stream[c] = "open" /\ stream'[c] = "closed"
             /\ client[e] # None /\ client[e] # c)
            => /\ client'[e] = client[e]
               /\ subscriptions'[e] = subscriptions[e]
               /\ Count(out', Disconnected(e)) = 0
         /\ (client'[e] # None /\ client'[e] # c /\ stream'[c] = "open")
            => <<c, e>> \notin wired'
      ]_vars

\* C22: a posted dispatch invokes the handlers its topic has when the task
\* runs, in their order, so a handler registered after the post is invoked
\* too; and no step removes or reorders the handlers of a topic.
C22_HandlersAtExecution ==
    [][/\ \A e \in Endpoints, s \in EndpointNames, r \in Requests :
            (call' = Call("RunTask", e, s, r) /\ eq # <<>> /\ eq' = Tail(eq))
            => /\ r.method \in DOMAIN m_TopicHandlers[e]
               /\ Len(out') = Len(m_TopicHandlers[e][r.method])
               /\ \A i \in 1..Len(out') :
                     out'[i] = Invoked(m_TopicHandlers[e][r.method][i], e, s, r)
       /\ \A e \in Endpoints, t \in Topics :
             LET old == HandlersOf(m_TopicHandlers[e], t)
                 new == HandlersOf(m_TopicHandlers'[e], t)
             IN  Len(old) <= Len(new) /\ SubSeq(new, 1, Len(old)) = old
      ]_vars

\* C22 witness: a dispatch ran two handlers of its topic, after the
\* subscriptions of the endpoint had been cleared.
C22_Witness ==
    \E e \in Endpoints, s \in EndpointNames, r \in Requests :
        /\ call = Call("RunTask", e, s, r)
        /\ Len(out) = 2
        /\ out[2] = Invoked("h1", e, s, r)
        /\ HandlerCount(e, r.method) = 2
        /\ TopicsOf(GetSubscriptions(e)) = {}

-----------------------------------------------------------------------------
(* SpecConfig: ConfigObjectUtility::CreateObject and DeleteObject *)

TypeNames == {"Host", "Comment"}

\* How the compiler and the item commit and activation end for one call.
CreateOutcomes == {"ok", "compile_throws", "throws", "commit_fails", "activate_fails"}

\* errors->Add(...) through a null errors pointer is undefined; the call
\* through the null pointer faults.
NullErrorsOutcomes == {"crashed"}

\* <<a, b>>: object a depends on object b.
DependsOn == {<<"s", "h">>, <<"n", "s">>}

ConfigCall(op, type, name, cascade, errors, existed, ret, errs, authority, deleted, failing) ==
    [op |-> op, type |-> type, name |-> name, cascade |-> cascade,
     errors |-> errors, existed |-> existed, ret |-> ret, errs |-> errs,
     authority |-> authority, deleted |-> deleted, failing |-> failing]

\* The errors array after an Add, if the caller gave one.
AddError(errs, hasErrors, text) == IF hasErrors THEN Append(errs, text) ELSE errs

CreateObject(type, fullName, hasErrors, outcome) ==
    LET existed == objects[fullName].registered
        written == files \cup {fullName}
        removed == written \ {fullName}
        failed  == outcome \in {"commit_fails", "activate_fails"}
    IN  IF existed
        THEN /\ \E ret \in (IF hasErrors THEN {"false"} ELSE NullErrorsOutcomes) :
                   ccall' = ConfigCall("CreateObject", type, fullName, FALSE,
                                       hasErrors, TRUE, ret,
                                       AddError(<<>>, hasErrors, "already exists"),
                                       FALSE, <<>>, {})
             /\ UNCHANGED <<objects, files>>
        ELSE /\ objects' = IF outcome = "ok"
                           THEN [objects EXCEPT ![fullName] = ActiveObject("_api")]
                           ELSE objects
             /\ files' = IF outcome = "throws" \/ (failed /\ hasErrors)
                         THEN removed ELSE written
             /\ ccall' = ConfigCall("CreateObject", type, fullName, FALSE,
                             hasErrors, FALSE,
                             IF outcome = "ok" THEN "true"
                             ELSE IF outcome = "compile_throws" THEN "threw"
                             ELSE "false",
                             IF outcome \in {"ok", "compile_throws"} THEN <<>>
                             ELSE AddError(<<>>, hasErrors, "exception"),
                             outcome = "ok" /\ type \notin {"Comment", "Downtime"},
                             <<>>, {})

\* DependencyGraph::GetParents: the registered objects that depend on o.
RECURSIVE ParentsFrom(_, _, _)
ParentsFrom(objs, o, i) ==
    IF i > Len(ObjectOrder) THEN <<>>
    ELSE (IF <<ObjectOrder[i], o>> \in DependsOn /\ objs[ObjectOrder[i]].registered
          THEN <<ObjectOrder[i]>> ELSE <<>>)
         \o ParentsFrom(objs, o, i + 1)

GetParents(objs, o) == ParentsFrom(objs, o, 1)

\* DeleteObjectHelper on the state st = [objects, files, errs, deleted, ret];
\* Deactivate throws for the objects in failing.
RECURSIVE DeleteObjectHelper(_, _, _, _, _)
RECURSIVE DeleteParents(_, _, _, _, _, _)
DeleteObjectHelper(st, o, cascade, hasErrors, failing) ==
    LET parents == GetParents(st.objects, o)
    IN  IF parents # <<>> /\ ~cascade
        THEN [st EXCEPT !.ret = "false",
                        !.errs = AddError(@, hasErrors, "other objects depend on it")]
        ELSE LET after == DeleteParents(st, parents, 1, cascade, hasErrors, failing)
             IN  IF o \in failing
                 THEN [after EXCEPT !.ret = "false",
                                    !.errs = AddError(@, hasErrors, "exception")]
                 ELSE [after EXCEPT !.objects[o] = NoObject,
                                    !.files = @ \ {o},
                                    !.deleted = Append(@, o),
                                    !.ret = "true"]

\* The loop over the parents: each is deleted, what the call returns is dropped.
DeleteParents(st, parents, i, cascade, hasErrors, failing) ==
    IF i > Len(parents) THEN st
    ELSE DeleteParents(DeleteObjectHelper(st, parents[i], cascade, hasErrors, failing),
                       parents, i + 1, cascade, hasErrors, failing)

DeleteObject(o, cascade, hasErrors, failing) ==
    /\ objects[o].registered
    /\ LET st == [objects |-> objects, files |-> files, errs |-> <<>>,
                  deleted |-> <<>>, ret |-> None]
           end == IF objects[o].package # "_api"
                  THEN [st EXCEPT !.ret = "false",
                                  !.errs = AddError(@, hasErrors, "not created using the API")]
                  ELSE DeleteObjectHelper(st, o, cascade, hasErrors, failing)
       IN  /\ objects' = end.objects
           /\ files' = end.files
           /\ ccall' = ConfigCall("DeleteObject", None, o, cascade, hasErrors, TRUE,
                                  end.ret, end.errs, FALSE, end.deleted, failing)

\* Objects loaded from the configuration files or created through the API
\* before; only those of package _api have a file under the _api directory.
InitConfig ==
    /\ objects \in [ObjectNames -> {NoObject, ActiveObject("_api"), ActiveObject("_etc")}]
    /\ files = {o \in ObjectNames : objects[o].package = "_api"}
    /\ ccall = NoConfigCall
    /\ local = [e \in {"e1"} |-> "true"]
    /\ subscriptions = [e \in {"e1"} |-> Empty]
    /\ client = [e \in {"e1"} |-> None]
    /\ m_TopicHandlers = [e \in {"e1"} |-> NoHandlers]
    /\ wired = {}
    /\ stream = [c \in {"c1"} |-> "open"]
    /\ eq = <<>>
    /\ call = NoCall
    /\ out = <<>>
    /\ th = [t \in Threads |-> Idle]
    /\ subs0 = Empty
    /\ types = RegisteredTypes
    /\ pending = {}

EndpointUnchanged ==
    UNCHANGED <<local, subscriptions, client, m_TopicHandlers, wired, stream, eq,
                call, out, th, subs0, types, pending>>

NextConfig ==
    \/ \E type \in TypeNames, fullName \in ObjectNames, hasErrors \in BOOLEAN,
          outcome \in CreateOutcomes :
          CreateObject(type, fullName, hasErrors, outcome) /\ EndpointUnchanged
    \/ \E o \in ObjectNames, cascade \in BOOLEAN, hasErrors \in BOOLEAN,
          failing \in SUBSET ObjectNames :
          DeleteObject(o, cascade, hasErrors, failing) /\ EndpointUnchanged

SpecConfig == InitConfig /\ [][NextConfig]_vars

\* C23: when CreateObject returns false for an object that did not exist, the
\* file it wrote for the object is gone, with or without an errors array;
\* for an object that exists it returns false with an 'already exists' error,
\* touches no file and triggers no authority recompute.
C23_CreateFailureCleansUp ==
    [][ccall'.op = "CreateObject"
         => /\ (ccall'.ret = "false" /\ ~ccall'.existed)
               => ccall'.name \notin files'
            /\ ccall'.existed
               => /\ ccall'.ret = "false"
                  /\ ccall'.errors => ccall'.errs = <<"already exists">>
                  /\ files' = files
                  /\ ~ccall'.authority
      ]_vars

\* The registered objects that depend on o, directly or through another.
Dependents(objs, o) ==
    LET direct(x) == {d \in ObjectNames : <<d, x>> \in DependsOn /\ objs[d].registered}
    IN  direct(o) \cup UNION {direct(d) : d \in direct(o)}

\* The position of an object in the sequence of deletions, 0 if not in it.
DeletedAt(deleted, o) ==
    IF \E i \in 1..Len(deleted) : deleted[i] = o
    THEN CHOOSE i \in 1..Len(deleted) : deleted[i] = o
    ELSE 0

\* C24: DeleteObject returns true only if the object and all its transitive
\* dependents are deactivated and unregistered; without cascade and with a
\* dependent it returns false and deletes nothing; with cascade the
\* dependents are deleted before the object, and a dependent that cannot be
\* deleted makes the result false; an object of another package than _api is
\* refused with false and nothing changes.
C24_DeleteAllOrFalse ==
    [][ccall'.op = "DeleteObject"
         => LET o == ccall'.name
                deps == Dependents(objects, o)
            IN  /\ ccall'.ret = "true"
                   => \A d \in deps \cup {o} :
                         ~objects'[d].registered /\ ~objects'[d].active
                /\ (objects[o].package = "_api" /\ ~ccall'.cascade /\ deps # {})
                   => ccall'.ret = "false" /\ objects' = objects /\ files' = files
                /\ (ccall'.cascade /\ ccall'.ret = "true")
                   => \A d \in deps :
                         /\ DeletedAt(ccall'.deleted, d) > 0
                         /\ DeletedAt(ccall'.deleted, d) < DeletedAt(ccall'.deleted, o)
                /\ (ccall'.cascade /\ deps \cap ccall'.failing # {})
                   => ccall'.ret = "false"
                /\ objects[o].package # "_api"
                   => ccall'.ret = "false" /\ objects' = objects /\ files' = files
      ]_vars

====
